---- MODULE Spec2Model ----
(***************************************************************************)
(* A model of coding_grace_game.py: the text adventure's session driven by *)
(* main(), its rooms, the guard encounter and the Rock-Paper-Scissors      *)
(* round.  A line of input is a sequence of one-character strings, so that *)
(* strip(), lower(), capitalize(), startswith() and the substring test are *)
(* computed as Python computes them.  Every action starts at one input()   *)
(* call and runs the code up to the next input() call or to the end of     *)
(* main().                                                                 *)
(***************************************************************************)
EXTENDS Integers, Sequences, FiniteSets, TLC

(***************************************************************************)
(* Bounds of the model.                                                    *)
(***************************************************************************)
\* Room entries per session (the adventure loop itself is unbounded).
MaxVisits == 6
\* Lines read by one guard encounter (the guard loop itself is unbounded).
MaxGuardInputs == 3

(***************************************************************************)
(* Text: str.lower, str.upper, str.strip, str.capitalize, str.startswith,  *)
(* and the substring test `sub in s`.                                      *)
(***************************************************************************)
UpperLetters == <<"A","B","C","D","E","F","G","H","I","J","K","L","M",
                  "N","O","P","Q","R","S","T","U","V","W","X","Y","Z">>
LowerLetters == <<"a","b","c","d","e","f","g","h","i","j","k","l","m",
                  "n","o","p","q","r","s","t","u","v","w","x","y","z">>
Whitespace == {" ", "\t"}

lower_char(c) ==
    IF \E i \in 1..Len(UpperLetters) : UpperLetters[i] = c
    THEN LowerLetters[CHOOSE i \in 1..Len(UpperLetters) : UpperLetters[i] = c]
    ELSE c

upper_char(c) ==
    IF \E i \in 1..Len(LowerLetters) : LowerLetters[i] = c
    THEN UpperLetters[CHOOSE i \in 1..Len(LowerLetters) : LowerLetters[i] = c]
    ELSE c

lower(s) == [i \in 1..Len(s) |-> lower_char(s[i])]

upper(s) == [i \in 1..Len(s) |-> upper_char(s[i])]

RECURSIVE lstrip(_)
lstrip(s) ==
    IF s # <<>> /\ s[1] \in Whitespace THEN lstrip(Tail(s)) ELSE s

RECURSIVE rstrip(_)
rstrip(s) ==
    IF s # <<>> /\ s[Len(s)] \in Whitespace
    THEN rstrip(SubSeq(s, 1, Len(s) - 1))
    ELSE s

strip(s) == rstrip(lstrip(s))

capitalize(s) ==
    IF s = <<>> THEN s ELSE <<upper_char(s[1])>> \o lower(Tail(s))

startswith(s, prefix) ==
    Len(s) >= Len(prefix) /\ SubSeq(s, 1, Len(prefix)) = prefix

contains(s, sub) ==
    \E i \in 1..(Len(s) - Len(sub) + 1) : SubSeq(s, i, i + Len(sub) - 1) = sub

(***************************************************************************)
(* The words the code compares input with.                                 *)
(***************************************************************************)
W_run == <<"r","u","n">>
W_door == <<"d","o","o","r">>
W_flee == <<"f","l","e","e">>
W_red == <<"r","e","d">>
W_blue == <<"b","l","u","e">>
W_green == <<"g","r","e","e","n">>
W_purple == <<"p","u","r","p","l","e">>
W_Rock == <<"R","o","c","k">>
W_Paper == <<"P","a","p","e","r">>
W_Scissors == <<"S","c","i","s","s","o","r","s">>
W_No_thanks == <<"N","o"," ","t","h","a","n","k","s">>
W_Done == <<"D","o","n","e">>
W_y == <<"y">>
W_yes == <<"y","e","s">>
W_n == <<"n">>
W_no == <<"n","o">>
W_treasure == <<"t","r","e","a","s","u","r","e">>
W_chest == <<"c","h","e","s","t">>
W_left == <<"l","e","f","t">>
W_1 == <<"1">>
W_2 == <<"2">>
W_rest == <<"r","e","s","t">>
alt_name == <<"R","a","i","n","b","o","w"," ","U","n","i","c","o","r","n">>

(***************************************************************************)
(* rps(): one round of Rock, Paper, Scissors.                              *)
(*                                                                         *)
(* The argument user_wins is a bool or a list.  It is modelled as a record *)
(* [islist, truth, w]: w is the list, each entry [num, v] saying whether   *)
(* the entry is an int or a float and, if so, its value.  A float is kept  *)
(* in fixed point: 1.0 is One units, one unit being the relative tolerance *)
(* of math.isclose.                                                        *)
(***************************************************************************)
\* math.isclose's default rel_tol is 1e-09 (abs_tol is 0.0).
RelTolInv == 1000000000
One == RelTolInv
Tenth == One \div 10

Abs(x) == IF x < 0 THEN -x ELSE x
Max(a, b) == IF a >= b THEN a ELSE b

\* math.isclose(a, b): abs(a-b) <= rel_tol * max(abs(a), abs(b)).
isclose(a, b) == Abs(a - b) <= Max(Abs(a), Abs(b)) \div RelTolInv

CHOICES == <<W_Rock, W_Paper, W_Scissors>>
Moves == {CHOICES[i] : i \in 1..Len(CHOICES)}
NoChoice == <<>>

\* WIN_SCENARIOS with a wrong value for one key.
WIN_SCENARIOS_scissors_beats_rock(m) ==
    CASE m = W_Rock -> W_Scissors
      [] m = W_Paper -> W_Rock
      [] m = W_Scissors -> W_Rock

\* Each key beats its value.
WIN_SCENARIOS(m) ==
    CASE m = W_Rock -> W_Scissors
      [] m = W_Paper -> W_Rock
      [] m = W_Scissors -> W_Paper

EXIT_OPTIONS == {W_No_thanks, W_Done}

RECURSIVE sum(_)
sum(w) == IF w = <<>> THEN 0 ELSE w[1].v + sum(Tail(w))

\* weights_ok without the test of the sum.
weights_ok_no_sum(uw) ==
    /\ uw.islist
    /\ Len(uw.w) = 3
    /\ \A i \in 1..Len(uw.w) : uw.w[i].num

\* The condition of the weighted branch.
weights_ok(uw) ==
    /\ uw.islist
    /\ Len(uw.w) = 3
    /\ \A i \in 1..Len(uw.w) : uw.w[i].num
    /\ isclose(sum(uw.w), One)

\* Python's truth value of user_wins: a bool is itself, a list is true
\* when it is not empty.
truthy(uw) == IF uw.islist THEN uw.w # <<>> ELSE uw.truth

\* random.choices always returning the first of CHOICES.
random_choices_first(uw) == {CHOICES[1]}

\* What random.choices(CHOICES, weights=user_wins, k=1)[0] can return: an
\* entry of weight zero is never drawn.
random_choices(uw) == {CHOICES[i] : i \in {j \in 1..3 : uw.w[j].v > 0}}

\* The draws one round can make on input l: none unless the input is a
\* move and the weighted branch is taken.
round_draws(l, uw) ==
    IF capitalize(strip(l)) \in Moves /\ weights_ok(uw)
    THEN random_choices(uw)
    ELSE {NoChoice}

\* computer_loses answering with the player's own move.
computer_loses_same_move(user_input) == user_input

\* The deterministic branches.
computer_loses(user_input) == WIN_SCENARIOS(user_input)

computer_wins(user_input) ==
    CHOOSE choice \in Moves : WIN_SCENARIOS(choice) = user_input

\* The result of the round from the two moves.
determine_result(user_input, computer_choice) ==
    IF WIN_SCENARIOS(user_input) = computer_choice THEN "win"
    ELSE IF WIN_SCENARIOS(computer_choice) = user_input THEN "lose"
    ELSE "tie"

\* is_exit comparing with the phrases as the prompt spells them.
is_exit_lower_case(user_input) == user_input \in {lower(W_No_thanks), lower(W_Done)}

\* The exit test and the validation of the input.
is_exit(user_input) == user_input \in EXIT_OPTIONS

is_valid(user_input) == user_input \in Moves

\* rps(user_wins) reading line l, the random draw (if one is made) being d.
rps(l, uw, d) ==
    LET user_input == capitalize(strip(l)) IN
    IF is_exit(user_input)
    THEN [result |-> "exit", user_choice |-> user_input,
          computer_choice |-> NoChoice, drew |-> FALSE]
    ELSE IF ~ is_valid(user_input)
    THEN [result |-> "invalid", user_choice |-> user_input,
          computer_choice |-> NoChoice, drew |-> FALSE]
    ELSE LET weighted == weights_ok(uw)
             cc == IF weighted THEN d
                   ELSE IF truthy(uw) THEN computer_loses(user_input)
                   ELSE computer_wins(user_input)
         IN [result |-> determine_result(user_input, cc),
             user_choice |-> user_input,
             computer_choice |-> cc, drew |-> weighted]

(***************************************************************************)
(* guard(): one pass of the guard's loop on line l.                        *)
(***************************************************************************)
\* guard_step with the door test forgetting guard_moved.
guard_step_door_always_opens(moved, l) ==
    LET next_action == lower(l) IN
    IF next_action = W_run /\ moved
    THEN [moved |-> moved, status |-> "died"]
    ELSE IF next_action = W_run /\ ~moved
    THEN [moved |-> TRUE, status |-> "prompt"]
    ELSE IF next_action = W_door
    THEN [moved |-> moved, status |-> "escaped"]
    ELSE [moved |-> moved, status |-> "prompt"]

\* guard_step taking any line that is not "door" for "run".
guard_step_else_is_run(moved, l) ==
    LET next_action == lower(l) IN
    IF next_action # W_door /\ moved
    THEN [moved |-> moved, status |-> "died"]
    ELSE IF next_action # W_door /\ ~moved
    THEN [moved |-> TRUE, status |-> "prompt"]
    ELSE IF next_action = W_door /\ moved
    THEN [moved |-> moved, status |-> "escaped"]
    ELSE [moved |-> moved, status |-> "died"]

\* guard_step letting a second run pass.
guard_step_run_twice(moved, l) ==
    LET next_action == lower(l) IN
    IF next_action = W_run
    THEN [moved |-> TRUE, status |-> "prompt"]
    ELSE IF next_action = W_door /\ moved
    THEN [moved |-> moved, status |-> "escaped"]
    ELSE IF next_action = W_door /\ ~moved
    THEN [moved |-> moved, status |-> "died"]
    ELSE [moved |-> moved, status |-> "prompt"]

guard_step(moved, l) ==
    LET next_action == lower(l) IN
    IF next_action = W_run /\ moved
    THEN [moved |-> moved, status |-> "died"]
    ELSE IF next_action = W_run /\ ~moved
    THEN [moved |-> TRUE, status |-> "prompt"]
    ELSE IF next_action = W_door /\ moved
    THEN [moved |-> moved, status |-> "escaped"]
    ELSE IF next_action = W_door /\ ~moved
    THEN [moved |-> moved, status |-> "died"]
    ELSE [moved |-> moved, status |-> "prompt"]

\* guard()'s loop on a sequence of lines, from guard_moved = moved: where
\* it stands when the lines are used up, or how it ended before.
RECURSIVE guard_run(_, _)
guard_run(moved, inputs) ==
    IF inputs = <<>> THEN [moved |-> moved, status |-> "prompt"]
    ELSE LET g == guard_step(moved, Head(inputs)) IN
         IF g.status = "prompt" THEN guard_run(g.moved, Tail(inputs)) ELSE g

(***************************************************************************)
(* The rooms' updates of player_info on entry.                             *)
(***************************************************************************)
has_item(inventory, item) ==
    \E i \in 1..Len(inventory) : inventory[i] = item

\* grant without the membership test.
grant_always(inventory, item) == Append(inventory, item)

\* if item not in inventory: inventory.append(item)
grant(inventory, item) ==
    IF has_item(inventory, item) THEN inventory ELSE Append(inventory, item)

red_enter(p) ==
    LET damage == 20
        knowledge == "Truth Scroll"
    IN [p EXCEPT !.location = "Red Room",
                 !.health = @ - damage,
                 !.inventory = grant(@, knowledge),
                 !.choices = Append(@, "Red Room")]

blue_enter(p) ==
    LET healing == 30
        illusion == "Crystal Mirror"
    IN [p EXCEPT !.location = "Blue Room",
                 !.health = @ + healing,
                 !.inventory = grant(@, illusion),
                 !.choices = Append(@, "Blue Room")]

\* player_info_arg["level"] += 1
next_level(p) == [p EXCEPT !.level = @ + 1]

\* green_enter calling next_level on the way in.
green_enter_next_level(p) ==
    LET special_item == "Emerald Amulet"
    IN next_level([p EXCEPT !.location = "Green Room",
                            !.inventory = grant(@, special_item),
                            !.choices = Append(@, "Green Room")])

green_enter(p) ==
    LET special_item == "Emerald Amulet"
    IN [p EXCEPT !.location = "Green Room",
                 !.inventory = grant(@, special_item),
                 !.choices = Append(@, "Green Room")]

\* The body of purple_reflection_room is what Python's indentation gives
\* it: the docstring line and two print calls.  The statements that set
\* the location, heal and append to choices stand at column 0, outside
\* the function, so that a call updates nothing and returns None.
purple_enter(p) == p

(***************************************************************************)
(* The lines a player may type at each prompt.                             *)
(***************************************************************************)
NameLines ==
    { <<"A","d","a">>, <<" ","B","o"," ">>, <<" "," ">> }

NickLines ==
    { <<"y">>, <<"Y">>, <<"Y","E","S">>, <<"n">>, <<"N","o">>,
      <<"m","a","y","b","e">>, <<" ","y">>, <<" ","n">>, <<>> }

DoorLines ==
    { <<"r","e","d">>, <<" ","R","E","D"," ">>,
      <<" ","R","e","d"," ","d","o","o","r">>,
      <<"b","l","u","e">>, <<"B","L","U","E">>,
      <<"g","r","e","e","n">>, <<"G","r","e","e","n"," ","o","n","e">>,
      <<"p","u","r","p","l","e">>, <<"P","u","r","p","l","e">>,
      <<"d","o","o","r">>, <<>> }

RedLines ==
    { <<"f","l","e","e">>, <<"I"," ","f","l","e","e"," ","n","o","w">>,
      <<"F","L","E","E">>, <<"a","t","t","a","c","k">>, <<>> }

BlueActionLines ==
    { <<"t","r","e","a","s","u","r","e">>, <<"C","h","e","s","t">>,
      <<"l","e","f","t">>, <<"L","E","F","T">>, <<" ","l","e","f","t">>,
      <<"g","u","a","r","d">> }

BlueChoiceLines == { <<"1">>, <<"2">>, <<"3">>, <<" ","1">> }

GuardLines ==
    { <<"r","u","n">>, <<"R","U","N">>, <<"d","o","o","r">>,
      <<"f","o","o">>, <<" ","r","u","n">> }

RpsLines ==
    { <<"r","o","c","k">>, <<" ","R","o","c","k"," ">>,
      <<"P","A","P","E","R">>, <<"s","c","i","s","s","o","r","s">>,
      <<"n","o"," ","t","h","a","n","k","s">>,
      <<"N","O"," ","T","H","A","N","K","S">>,
      <<" ","D","o","N","e">>, <<"d","o","n","e">>,
      <<"b","a","n","a","n","a">>, <<"r","o","c","k","s">>, <<>> }

(***************************************************************************)
(* The arguments rps() is called with.                                     *)
(***************************************************************************)
Num(v) == [num |-> TRUE, v |-> v]
NotNum == [num |-> FALSE, v |-> 0]
BoolArg(b) == [islist |-> FALSE, truth |-> b, w |-> <<>>]
ListArg(w) == [islist |-> TRUE, truth |-> FALSE, w |-> w]

\* rps([0.3, 0.4, 0.3]), the Green Room's call.
GreenWeights == ListArg(<<Num(3 * Tenth), Num(4 * Tenth), Num(3 * Tenth)>>)

\* def rps(user_wins=True)
DefaultUserWins == BoolArg(TRUE)

WellFormedArgs ==
    { GreenWeights,
      ListArg(<<Num(One), Num(0), Num(0)>>),
      ListArg(<<Num(Tenth), Num(2 * Tenth), Num(7 * Tenth - 1)>>) }

MalformedArgs ==
    { ListArg(<<>>),
      ListArg(<<Num(5 * Tenth), Num(5 * Tenth)>>),
      ListArg(<<Num(One)>>),
      ListArg(<<Num(2 * Tenth), Num(2 * Tenth), Num(3 * Tenth), Num(3 * Tenth)>>),
      ListArg(<<Num(5 * Tenth), NotNum, Num(5 * Tenth)>>),
      ListArg(<<NotNum, NotNum, NotNum>>),
      ListArg(<<Num(3 * Tenth), Num(3 * Tenth), Num(3 * Tenth)>>),
      ListArg(<<Num(5 * Tenth), Num(5 * Tenth), Num(5 * Tenth)>>),
      ListArg(<<Num(3 * Tenth), Num(4 * Tenth), Num(3 * Tenth + 5)>>),
      ListArg(<<Num(0), Num(0), Num(0)>>) }

UserWinsArgs == {BoolArg(TRUE), BoolArg(FALSE)} \cup WellFormedArgs \cup MalformedArgs

(***************************************************************************)
(* State.                                                                  *)
(***************************************************************************)
VARIABLES
    pc,               \* the input() call the program waits at, or "done"
    player_info,      \* the player_info dictionary
    line,             \* the line read last
    guard_moved,      \* guard()'s local
    guard_result,     \* how guard() ended: "none", "escaped", "died"
    guard_inputs,     \* the lines guard() has read
    user_wins,        \* rps()'s argument
    user_choice,      \* rps()'s user_input, the second element it returns
    computer_choice,  \* rps()'s computer_choice, NoChoice when not set
    drew,             \* whether the round called random.choices
    result,           \* the result of the round
    room_result,      \* start_new_adventure()'s room_result
    signal,           \* the message of the GameOver raised, "none" if none
    farewell,         \* the names main() has printed in its farewell
    entered           \* the number of calls of each room function

vars == <<pc, player_info, line, guard_moved, guard_result, guard_inputs,
          user_wins, user_choice, computer_choice, drew, result,
          room_result, signal, farewell, entered>>

rps_vars == <<user_wins, user_choice, computer_choice, drew, result>>
guard_vars == <<guard_moved, guard_result, guard_inputs>>

Rooms == {"Red Room", "Blue Room", "Green Room", "Purple Room"}

visits == entered["Red Room"] + entered["Blue Room"]
          + entered["Green Room"] + entered["Purple Room"]

\* The module-level player_info, and the state when main() waits for the
\* name.
InitialPlayerInfo ==
    [name |-> <<>>, level |-> 1, inventory |-> <<>>,
     location |-> "Starting Room", health |-> 100, choices |-> <<>>]

Init ==
    /\ pc = "name"
    /\ player_info = InitialPlayerInfo
    /\ line = <<>>
    /\ guard_moved = FALSE
    /\ guard_result = "none"
    /\ guard_inputs = <<>>
    /\ user_wins = DefaultUserWins
    /\ user_choice = NoChoice
    /\ computer_choice = NoChoice
    /\ drew = FALSE
    /\ result = "none"
    /\ room_result = "unset"
    /\ signal = "none"
    /\ farewell = <<>>
    /\ entered = [r \in Rooms |-> 0]

(***************************************************************************)
(* main(): the end of the session.  A GameOver raised by you_died() or     *)
(* you_won() unwinds to main()'s except clause; a normal return of         *)
(* start_new_adventure() arrives at the same place.  main() then prints    *)
(* the farewell and returns.                                               *)
(***************************************************************************)
you_died == "Player died"
you_won == "Player won"

\* main_end with a GameOver that main() does not catch: no farewell.
main_end_uncaught(p, sig) ==
    /\ pc' = "done"
    /\ signal' = sig
    /\ farewell' = IF sig = "none" THEN Append(farewell, upper(p.name))
                   ELSE farewell

\* The rest of main() after start_new_adventure() ended, p being the
\* player_info then and sig the GameOver caught ("none" after a normal
\* return).
main_end(p, sig) ==
    /\ pc' = "done"
    /\ signal' = sig
    /\ farewell' = Append(farewell, upper(p.name))

(***************************************************************************)
(* get_player_name()                                                       *)
(***************************************************************************)
get_player_name_enter ==
    /\ pc = "name"
    /\ \E l \in NameLines :
        /\ line' = l
        /\ player_info' = [player_info EXCEPT !.name = strip(l)]
    /\ pc' = "nick"
    /\ UNCHANGED <<guard_vars, rps_vars, room_result, signal, farewell, entered>>

\* nickname keeping the entered name on an answer that is neither yes nor no.
nickname_else_keeps(name, answer) ==
    IF lower(answer) \in {W_y, W_yes} THEN alt_name
    ELSE IF lower(answer) \in {W_n, W_no} THEN name
    ELSE name

\* The name after the answer to the nickname question.
nickname(name, answer) ==
    IF lower(answer) \in {W_y, W_yes} THEN alt_name
    ELSE IF lower(answer) \in {W_n, W_no} THEN name
    ELSE alt_name

get_player_name_answer ==
    /\ pc = "nick"
    /\ \E l \in NickLines :
        /\ line' = l
        /\ player_info' = [player_info EXCEPT !.name = nickname(@, l)]
    /\ pc' = "door"
    /\ UNCHANGED <<guard_vars, rps_vars, room_result, signal, farewell, entered>>

(***************************************************************************)
(* start_new_adventure(): the door prompt and the dispatch to a room, up   *)
(* to the room's first prompt.                                             *)
(***************************************************************************)
\* door_room comparing the line as typed, without lower().
door_room_no_lower(l) ==
    LET door == strip(l) IN
    IF startswith(door, W_red) THEN "Red Room"
    ELSE IF startswith(door, W_blue) THEN "Blue Room"
    ELSE IF startswith(door, W_green) THEN "Green Room"
    ELSE IF startswith(door, W_purple) THEN "Purple Room"
    ELSE "none"

\* door_room without strip().
door_room_no_strip(l) ==
    LET door == lower(l) IN
    IF startswith(door, W_red) THEN "Red Room"
    ELSE IF startswith(door, W_blue) THEN "Blue Room"
    ELSE IF startswith(door, W_green) THEN "Green Room"
    ELSE IF startswith(door, W_purple) THEN "Purple Room"
    ELSE "none"

\* door_room taking a line that names no door for the red door.
door_room_else_red(l) ==
    LET door == lower(strip(l)) IN
    IF startswith(door, W_blue) THEN "Blue Room"
    ELSE IF startswith(door, W_green) THEN "Green Room"
    ELSE IF startswith(door, W_purple) THEN "Purple Room"
    ELSE "Red Room"

\* The room a door line dispatches to, "none" when the line names no door.
door_room(l) ==
    LET door == lower(strip(l)) IN
    IF startswith(door, W_red) THEN "Red Room"
    ELSE IF startswith(door, W_blue) THEN "Blue Room"
    ELSE IF startswith(door, W_green) THEN "Green Room"
    ELSE IF startswith(door, W_purple) THEN "Purple Room"
    ELSE "none"

\* The loop never breaking.
loop_continues_always(rr) == TRUE

\* The loop going on after a room that returned player_info as well.
loop_continues_after_return(rr) == rr \in {"flee", "player_info"}

\* if room_result != "flee": break
loop_continues(rr) == rr = "flee"

\* after_room with the session ending in death once health is used up.
after_room_health_check(p, rr) ==
    /\ room_result' = rr
    /\ IF p.health <= 0
       THEN main_end(p, you_died)
       ELSE IF loop_continues(rr)
       THEN pc' = "door" /\ UNCHANGED <<signal, farewell>>
       ELSE main_end(p, "none")

\* What follows a room's return with rr, player_info being p: the door
\* prompt again, or the end of the loop and so of main().
after_room(p, rr) ==
    /\ room_result' = rr
    /\ IF loop_continues(rr)
       THEN pc' = "door" /\ UNCHANGED <<signal, farewell>>
       ELSE main_end(p, "none")

\* rps()'s argument and locals outside a call of rps().
rps_unbound ==
    /\ user_wins' = DefaultUserWins
    /\ user_choice' = NoChoice
    /\ computer_choice' = NoChoice
    /\ drew' = FALSE

start_new_adventure ==
    /\ pc = "door"
    /\ \E l \in DoorLines :
        LET room == door_room(l) IN
        /\ line' = l
        /\ room # "none" => visits < MaxVisits
        /\ entered' = IF room = "none" THEN entered
                      ELSE [entered EXCEPT ![room] = @ + 1]
        /\ rps_unbound
        /\ CASE room = "Red Room" ->
                  /\ player_info' = red_enter(player_info)
                  /\ pc' = "red"
                  /\ UNCHANGED <<guard_vars, result, room_result, signal, farewell>>
             [] room = "Blue Room" ->
                  /\ player_info' = blue_enter(player_info)
                  /\ pc' = "blue_action"
                  /\ UNCHANGED <<guard_vars, result, room_result, signal, farewell>>
             [] room = "Green Room" ->
                  /\ player_info' = green_enter(player_info)
                  /\ result' = "tie"
                  /\ pc' = "rps"
                  /\ UNCHANGED <<guard_vars, room_result, signal, farewell>>
             [] room = "Purple Room" ->
                  /\ player_info' = purple_enter(player_info)
                  /\ after_room(purple_enter(player_info), "None")
                  /\ UNCHANGED <<guard_vars, result>>
             [] room = "none" ->
                  /\ pc' = "door"
                  /\ UNCHANGED <<player_info, guard_vars, result, room_result,
                                 signal, farewell>>

(***************************************************************************)
(* painful_truth_of_reality_room(): the answer to the Red Room's question. *)
(***************************************************************************)
\* flees lowercasing the answer first.
flees_any_case(next_move) == contains(lower(next_move), W_flee)

flees(next_move) == contains(next_move, W_flee)

painful_truth_of_reality_room ==
    /\ pc = "red"
    /\ \E l \in RedLines :
        /\ line' = l
        /\ IF flees(l)
           THEN after_room(player_info, "flee")
           ELSE /\ main_end(player_info, you_died)
                /\ UNCHANGED room_result
    /\ UNCHANGED <<player_info, guard_vars, rps_vars, entered>>

(***************************************************************************)
(* blissful_ignorance_of_illusion_room(): the treasure prompts, then the   *)
(* call of guard().                                                        *)
(***************************************************************************)
\* guard() up to its first prompt.
guard_begin ==
    /\ guard_moved' = FALSE
    /\ guard_result' = "none"
    /\ guard_inputs' = <<>>
    /\ pc' = "guard"

looks_at_chest(action) == lower(action) \in {W_treasure, W_chest, W_left}

blue_room_action ==
    /\ pc = "blue_action"
    /\ \E l \in BlueActionLines :
        /\ line' = l
        /\ IF looks_at_chest(l)
           THEN pc' = "blue_choice" /\ UNCHANGED guard_vars
           ELSE guard_begin
    /\ UNCHANGED <<player_info, rps_vars, room_result, signal, farewell, entered>>

blue_room_choice ==
    /\ pc = "blue_choice"
    /\ \E l \in BlueChoiceLines :
        /\ line' = l
        /\ IF l = W_1
           THEN pc' = "blue_treasure" /\ UNCHANGED guard_vars
           ELSE guard_begin
    /\ UNCHANGED <<player_info, rps_vars, room_result, signal, farewell, entered>>

\* blue_room_treasure_choice asking again when the answer is not 1 or 2.
blue_room_treasure_choice_reprompts ==
    /\ pc = "blue_treasure"
    /\ \E l \in BlueChoiceLines :
        /\ line' = l
        /\ IF l \in {W_1, W_2}
           THEN guard_begin
           ELSE pc' = "blue_treasure" /\ UNCHANGED guard_vars
    /\ UNCHANGED <<player_info, rps_vars, room_result, signal, farewell, entered>>

blue_room_treasure_choice ==
    /\ pc = "blue_treasure"
    /\ \E l \in BlueChoiceLines :
        /\ line' = l
        /\ guard_begin
    /\ UNCHANGED <<player_info, rps_vars, room_result, signal, farewell, entered>>

(***************************************************************************)
(* guard(): one line at the [run | door] prompt.                           *)
(***************************************************************************)
guard ==
    /\ pc = "guard"
    /\ Len(guard_inputs) < MaxGuardInputs
    /\ \E l \in GuardLines :
        LET g == guard_step(guard_moved, l) IN
        /\ line' = l
        /\ guard_inputs' = Append(guard_inputs, l)
        /\ guard_moved' = g.moved
        /\ CASE g.status = "prompt" ->
                  /\ guard_result' = "none"
                  /\ pc' = "guard"
                  /\ UNCHANGED <<room_result, signal, farewell>>
             [] g.status = "escaped" ->
                  /\ guard_result' = "escaped"
                  /\ after_room(player_info, "player_info")
             [] g.status = "died" ->
                  /\ guard_result' = "died"
                  /\ main_end(player_info, you_died)
                  /\ UNCHANGED room_result
    /\ UNCHANGED <<player_info, rps_vars, entered>>

(***************************************************************************)
(* green_magic_room(): one round of rps([0.3, 0.4, 0.3]) and what the room *)
(* does with its result.                                                   *)
(***************************************************************************)
\* green_outcome asking again after an invalid input.
green_outcome_invalid_again(res) ==
    IF res \in {"tie", "invalid"} THEN "again"
    ELSE IF res = "exit" THEN "flee"
    ELSE IF res = "win" THEN "won"
    ELSE "flee"

\* What the room does with the round's result: "again", "flee" or "won".
\* green_outcome raising the victory on a lost round too.
green_outcome_lose_wins(res) ==
    IF res = "tie" THEN "again"
    ELSE IF res \in {"exit", "invalid"} THEN "flee"
    ELSE IF res = "win" THEN "won"
    ELSE "won"

green_outcome(res) ==
    IF res = "tie" THEN "again"
    ELSE IF res \in {"exit", "invalid"} THEN "flee"
    ELSE IF res = "win" THEN "won"
    ELSE "flee"

green_magic_room ==
    /\ pc = "rps"
    /\ \E l \in RpsLines :
        \E d \in round_draws(l, GreenWeights) :
            LET r == rps(l, GreenWeights, d) IN
            /\ line' = l
            /\ user_wins' = GreenWeights
            /\ user_choice' = r.user_choice
            /\ computer_choice' = r.computer_choice
            /\ drew' = r.drew
            /\ result' = r.result
            /\ CASE green_outcome(r.result) = "again" ->
                      /\ pc' = "rps"
                      /\ UNCHANGED <<room_result, signal, farewell>>
                 [] green_outcome(r.result) = "flee" ->
                      after_room(player_info, "flee")
                 [] green_outcome(r.result) = "won" ->
                      /\ main_end(player_info, you_won)
                      /\ UNCHANGED room_result
    /\ UNCHANGED <<player_info, guard_vars, entered>>

Next ==
    \/ get_player_name_enter
    \/ get_player_name_answer
    \/ start_new_adventure
    \/ painful_truth_of_reality_room
    \/ blue_room_action
    \/ blue_room_choice
    \/ blue_room_treasure_choice
    \/ guard
    \/ green_magic_room

Spec == Init /\ [][Next]_vars

(***************************************************************************)
(* rps() called on its own, with each kind of argument, by a caller that   *)
(* repeats the round while its result is a tie.                            *)
(***************************************************************************)
RpsInit ==
    /\ pc = "rps_call"
    /\ user_wins \in UserWinsArgs
    /\ player_info = InitialPlayerInfo
    /\ line = <<>>
    /\ guard_moved = FALSE
    /\ guard_result = "none"
    /\ guard_inputs = <<>>
    /\ user_choice = NoChoice
    /\ computer_choice = NoChoice
    /\ drew = FALSE
    /\ result = "none"
    /\ room_result = "unset"
    /\ signal = "none"
    /\ farewell = <<>>
    /\ entered = [r \in Rooms |-> 0]

rps_call ==
    /\ pc = "rps_call"
    /\ \E l \in RpsLines :
        \E d \in round_draws(l, user_wins) :
            LET r == rps(l, user_wins, d) IN
            /\ line' = l
            /\ user_choice' = r.user_choice
            /\ computer_choice' = r.computer_choice
            /\ drew' = r.drew
            /\ result' = r.result
            /\ pc' = IF r.result = "tie" THEN "rps_call" ELSE "rps_over"
    /\ UNCHANGED <<player_info, guard_vars, user_wins, room_result, signal,
                   farewell, entered>>

RpsNext == rps_call

RpsSpec == RpsInit /\ [][RpsNext]_vars

(***************************************************************************)
(* The guard encounter.                                                    *)
(***************************************************************************)
\* A recognized guard input: run or door, compared case-insensitively.
IsGuardWord(l) == lower(l) \in {W_run, W_door}

\* The lines the encounter has read, in lower case.
GuardTokens == [i \in 1..Len(guard_inputs) |-> lower(guard_inputs[i])]

OnlyGuardWords == \A i \in 1..Len(guard_inputs) : IsGuardWord(guard_inputs[i])

\* Where the encounter stands.
GuardNow ==
    [moved |-> guard_moved,
     status |-> IF guard_result = "none" THEN "prompt" ELSE guard_result]

\* C1: in a guard encounter fed recognized inputs only, run then door
\* ends it with success (the Blue Room returns normally), door as the
\* first input kills the player, run twice kills the player, and no other
\* sequence escapes.
C1_GuardSequences ==
    OnlyGuardWords =>
        /\ GuardTokens = <<>> => ~guard_moved /\ guard_result = "none"
        /\ GuardTokens = <<W_run, W_door>> =>
              /\ guard_result = "escaped"
              /\ room_result = "player_info"
              /\ signal = "none"
        /\ (GuardTokens # <<>> /\ GuardTokens[1] = W_door) =>
              /\ guard_result = "died"
              /\ signal = you_died
              /\ Len(GuardTokens) = 1
        /\ GuardTokens = <<W_run, W_run>> =>
              /\ guard_result = "died"
              /\ signal = you_died
        /\ guard_result = "escaped" => GuardTokens = <<W_run, W_door>>

C1_Witness ==
    /\ guard_inputs = << <<"R","U","N">>, <<"d","o","o","r">> >>
    /\ guard_result = "escaped"
    /\ pc = "done"

\* C2: a guard input other than run or door leaves guard_moved and
\* player_info unchanged and prompts again; and an encounter stands, or has
\* ended, exactly as it would on its recognized inputs alone.
C2_GuardIgnoresUnrecognized ==
    /\ [][(pc = "guard" /\ ~IsGuardWord(line')) =>
            /\ guard_moved' = guard_moved
            /\ player_info' = player_info
            /\ guard_result' = "none"
            /\ signal' = signal
            /\ pc' = "guard"]_vars
    /\ [](GuardNow = guard_run(FALSE, SelectSeq(guard_inputs, IsGuardWord)))

C2_Witness ==
    /\ guard_inputs = << <<"f","o","o">>, <<"r","u","n">>, <<"d","o","o","r">> >>
    /\ guard_result = "escaped"
    /\ pc = "done"

(***************************************************************************)
(* The Rock-Paper-Scissors round.                                          *)
(***************************************************************************)
\* Rock beats Scissors, Scissors beats Paper, Paper beats Rock.
Beats == { <<W_Rock, W_Scissors>>, <<W_Scissors, W_Paper>>, <<W_Paper, W_Rock>> }

\* An exit phrase, and a move, compared after trimming and case-insensitively.
IsExitPhrase(l) == lower(strip(l)) \in {lower(W_No_thanks), lower(W_Done)}

IsMoveLine(l) == \E m \in Moves : lower(m) = lower(strip(l))

MoveOf(l) == CHOOSE m \in Moves : lower(m) = lower(strip(l))

\* C3: the outcome rule is total and antisymmetric over the nine pairs of
\* moves, a move ties with itself, win follows the cycle Rock > Scissors >
\* Paper > Rock; and the round just played has the result of the rule.
C3_MoveResolver ==
    /\ \A a \in Moves, b \in Moves :
          /\ determine_result(a, b) \in {"win", "lose", "tie"}
          /\ determine_result(a, b) = "win" <=> determine_result(b, a) = "lose"
          /\ determine_result(a, b) = "win" <=> <<a, b>> \in Beats
          /\ determine_result(a, a) = "tie"
    /\ computer_choice # NoChoice =>
          /\ result = "win" <=> <<user_choice, computer_choice>> \in Beats
          /\ result = "lose" <=> <<computer_choice, user_choice>> \in Beats
          /\ result = "tie" <=> user_choice = computer_choice
          /\ result \in {"win", "lose", "tie"}

C3_Witness ==
    /\ user_choice = W_Rock
    /\ computer_choice = W_Scissors
    /\ result = "win"
    /\ pc = "done"

\* C4: a round given "no thanks" or "done" in any letter case returns
\* exit, and a round given a line that is neither an exit phrase nor a move
\* returns invalid; in both cases no opponent move is determined, no random
\* draw is made, and player_info is unchanged.
C4_ExitAndInvalid ==
    [][pc = "rps_call" =>
         /\ IsExitPhrase(line') =>
               /\ result' = "exit"
               /\ computer_choice' = NoChoice
               /\ ~drew'
               /\ player_info' = player_info
         /\ (~IsExitPhrase(line') /\ ~IsMoveLine(line')) =>
               /\ result' = "invalid"
               /\ computer_choice' = NoChoice
               /\ ~drew'
               /\ player_info' = player_info]_vars

C4_Witness ==
    /\ pc = "rps_over"
    /\ line = <<"N","O"," ","T","H","A","N","K","S">>
    /\ result = "exit"
    /\ user_wins = GreenWeights

\* C5: for every valid move, rps(True) plays the move the player's move
\* beats and the round is a win, which ends a tie-retry loop at once;
\* rps(False) plays the move that beats the player's and the round is a loss.
C5_DeterministicStrategies ==
    (result # "none" /\ IsMoveLine(line)) =>
        /\ user_wins = BoolArg(TRUE) =>
              /\ <<MoveOf(line), computer_choice>> \in Beats
              /\ result = "win"
              /\ pc = "rps_over"
        /\ user_wins = BoolArg(FALSE) =>
              /\ <<computer_choice, MoveOf(line)>> \in Beats
              /\ result = "lose"

C5_Witness ==
    /\ user_wins = BoolArg(TRUE)
    /\ line = <<" ","R","o","c","k"," ">>
    /\ computer_choice = W_Scissors
    /\ result = "win"

\* A list that is no well-formed weights argument: not three entries, an
\* entry that is no number, or a sum further from 1.0 than the tolerance.
Malformed(uw) ==
    /\ uw.islist
    /\ \/ Len(uw.w) # 3
       \/ \E i \in 1..Len(uw.w) : ~uw.w[i].num
       \/ Abs(sum(uw.w) - One) > 1

C7_GreenRoomRetry ==
    [][pc = "rps" =>
         /\ result' \in {"tie", "win", "lose", "exit", "invalid"}
         /\ result' = "tie" <=> pc' = "rps"
         /\ result' = "tie" => signal' = "none" /\ room_result' = room_result
         /\ result' = "win" => signal' = you_won /\ pc' = "done"
         /\ result' \in {"lose", "exit", "invalid"} =>
               /\ room_result' = "flee"
               /\ pc' = "door"
               /\ signal' = "none"]_vars

C7_Witness ==
    /\ pc = "door"
    /\ result = "invalid"
    /\ room_result = "flee"
    /\ signal = "none"

(***************************************************************************)
(* player_info.                                                            *)
(***************************************************************************)
Items == {"Truth Scroll", "Crystal Mirror", "Emerald Amulet"}

Count(seq, x) == Cardinality({i \in 1..Len(seq) : seq[i] = x})

\* C8: the inventory never holds an item twice and never loses an item;
\* after any number of Green Room visits it holds Emerald Amulet once.
C8_Inventory ==
    /\ [](\A i \in 1..Len(player_info.inventory) :
             /\ player_info.inventory[i] \in Items
             /\ Count(player_info.inventory, player_info.inventory[i]) = 1)
    /\ [](entered["Green Room"] > 0 =>
             Count(player_info.inventory, "Emerald Amulet") = 1)
    /\ [][\A it \in Items :
             Count(player_info.inventory, it) <= Count(player_info.inventory', it)]_vars

C8_Witness ==
    /\ entered["Green Room"] >= 3
    /\ entered["Red Room"] >= 2
    /\ Count(player_info.inventory, "Emerald Amulet") = 1
    /\ Count(player_info.inventory, "Truth Scroll") = 1

\* C9: health is 100 - 20 * (Red Room entries) + 30 * (Blue Room entries)
\* + 10 * (Purple Room entries), the delta being applied on every entry,
\* and the Green Room leaves health unchanged.
C9_HealthFormula ==
    player_info.health = 100 - 20 * entered["Red Room"]
                             + 30 * entered["Blue Room"]
                             + 10 * entered["Purple Room"]

\* The same without the Purple Room's term: what the Red, Blue and Green
\* Rooms do to health, whether or not their item is already held.
HealthOfRedBlueGreen ==
    entered["Purple Room"] = 0 =>
        player_info.health = 100 - 20 * entered["Red Room"]
                                 + 30 * entered["Blue Room"]

\* C10: health alone never ends the session.  A death is raised only by
\* a Red Room answer without "flee" or by a recognized guard input; at the
\* door prompt, whatever health is, a door line enters its room and nothing
\* is raised; and states with health <= 0 in which the session goes on
\* are reachable.
C10_HealthNeverEndsSession ==
    /\ [][(signal' = you_died /\ signal # you_died) =>
            \/ pc = "red" /\ ~contains(line', W_flee)
            \/ pc = "guard" /\ IsGuardWord(line')]_vars
    /\ [][pc = "door" =>
            LET door == lower(strip(line')) IN
            /\ signal' = "none"
            /\ startswith(door, W_red) =>
                  pc' = "red" /\ player_info'.location = "Red Room"
            /\ startswith(door, W_blue) =>
                  pc' = "blue_action" /\ player_info'.location = "Blue Room"
            /\ startswith(door, W_green) =>
                  pc' = "rps" /\ player_info'.location = "Green Room"]_vars
    /\ []((pc = "done" /\ signal = you_died) =>
            player_info.location \in {"Red Room", "Blue Room"})

C10_Witness ==
    /\ player_info.health <= 0
    /\ entered["Red Room"] = 5
    /\ pc = "rps"
    /\ signal = "none"

(***************************************************************************)
(* The adventure loop.                                                     *)
(***************************************************************************)
Locations == {"Starting Room"} \cup Rooms

\* The prompts inside a room.
RoomPrompts ==
    {"red", "blue_action", "blue_choice", "blue_treasure", "guard", "rps"}

\* C11: choices is append-only and gains exactly the entered room's name
\* on every room entry and on nothing else; location is "Starting Room"
\* while choices is empty and the last element of choices afterwards, and
\* is always one of the five room names.
C11_ChoicesAndLocation ==
    /\ [][\/ player_info'.choices = player_info.choices
          \/ \E r \in Rooms :
                player_info'.choices = Append(player_info.choices, r)]_vars
    /\ [](\A r \in Rooms : Count(player_info.choices, r) = entered[r])
    /\ [](player_info.location =
             IF player_info.choices = <<>> THEN "Starting Room"
             ELSE player_info.choices[Len(player_info.choices)])
    /\ [](player_info.location \in Locations)

\* The same for the Red, Blue and Green Rooms: what holds as long as the
\* Purple Room is not entered.
ChoicesOfRedBlueGreen ==
    entered["Purple Room"] = 0 =>
        /\ \A r \in Rooms : Count(player_info.choices, r) = entered[r]
        /\ player_info.location =
              IF player_info.choices = <<>> THEN "Starting Room"
              ELSE player_info.choices[Len(player_info.choices)]

\* C12: when a room returns "flee" the door choice is presented again;
\* when it returns anything else the loop ends and no door prompt follows;
\* the loop never ends normally on a "flee".
C12_FleeLoops ==
    /\ [][(pc \in RoomPrompts /\ pc' \notin RoomPrompts /\ signal' = "none") =>
            /\ room_result' = "flee" <=> pc' = "door"
            /\ room_result' # "flee" <=> pc' = "done"]_vars
    /\ [][(pc = "door" /\ pc' \notin RoomPrompts /\ pc' # "door") =>
            /\ room_result' # "flee"
            /\ pc' = "done"]_vars
    /\ []((pc = "done" /\ signal = "none") => room_result \notin {"flee", "unset"})
    /\ [][pc = "done" => pc' = "done"]_vars

C12_Witness ==
    /\ pc = "door"
    /\ room_result = "flee"
    /\ entered["Red Room"] = 1
    /\ entered["Green Room"] = 1

\* The door a line names after trimming and lowercasing, "none" if none.
DoorOf(l) ==
    LET door == lower(strip(l)) IN
    IF \E w \in {W_red, W_blue, W_green, W_purple} : startswith(door, w)
    THEN CHOOSE w \in {W_red, W_blue, W_green, W_purple} : startswith(door, w)
    ELSE <<>>

\* C13: a door line that names no door enters no room, changes no field
\* of player_info and is followed by the door prompt; a line that starts
\* with red, blue, green or purple in any letter case calls exactly that
\* room's function.
C13_DoorDispatch ==
    [][pc = "door" =>
         /\ DoorOf(line') = <<>> =>
               /\ entered' = entered
               /\ player_info' = player_info
               /\ pc' = "door"
         /\ DoorOf(line') = W_red =>
               entered' = [entered EXCEPT !["Red Room"] = @ + 1] /\ pc' = "red"
         /\ DoorOf(line') = W_blue =>
               entered' = [entered EXCEPT !["Blue Room"] = @ + 1]
               /\ pc' = "blue_action"
         /\ DoorOf(line') = W_green =>
               entered' = [entered EXCEPT !["Green Room"] = @ + 1] /\ pc' = "rps"
         /\ DoorOf(line') = W_purple =>
               entered' = [entered EXCEPT !["Purple Room"] = @ + 1]]_vars

C13_Witness ==
    /\ line = <<"B","L","U","E">>
    /\ pc = "blue_action"
    /\ entered["Blue Room"] = 1

(***************************************************************************)
(* The rooms.                                                              *)
(***************************************************************************)
RedRoomStep ==
    pc = "red" =>
         /\ contains(line', W_flee) =>
               /\ room_result' = "flee"
               /\ pc' = "door"
               /\ signal' = "none"
         /\ ~contains(line', W_flee) =>
               /\ signal' = you_died
               /\ pc' = "done"
               /\ room_result' = room_result
         /\ player_info' = player_info

\* C14: in the Red Room an answer that contains "flee" as typed (so not
\* "FLEE") returns "flee" to the loop; every other answer raises the death
\* GameOver, which ends the session with no further door prompt; there is
\* no third outcome, the room never returns normally.
C14_RedRoom == [][RedRoomStep]_vars

C14_Witness ==
    /\ line = <<"F","L","E","E">>
    /\ signal = you_died
    /\ pc = "done"
    /\ player_info.location = "Red Room"

BlueRoomStep ==
    pc \in {"blue_action", "blue_choice", "blue_treasure"} =>
            /\ player_info' = player_info
            /\ entered' = entered
            /\ signal' = "none"
            /\ pc = "blue_action" => pc' \in {"blue_choice", "guard"}
            /\ pc = "blue_choice" => pc' \in {"blue_treasure", "guard"}
            /\ pc = "blue_treasure" => pc' = "guard"
            /\ pc' = "guard" => (~guard_moved' /\ Len(guard_inputs') = 0)

\* C15: in the Blue Room no answer to the treasure prompts changes
\* player_info or raises anything, and after at most three answers guard()
\* is called, from its start; if the guard is escaped the room returns
\* normally, the loop ends and the farewell is printed; if the guard kills,
\* the session ends in death.
C15_BlueRoom ==
    /\ [][BlueRoomStep]_vars
    /\ [](guard_result = "escaped" =>
            /\ pc = "done"
            /\ signal = "none"
            /\ room_result = "player_info"
            /\ Len(farewell) = 1
            /\ player_info.location = "Blue Room")
    /\ [](guard_result = "died" => pc = "done" /\ signal = you_died)

C15_Witness ==
    /\ pc = "guard"
    /\ line = <<"3">>
    /\ guard_inputs = <<>>
    /\ player_info.location = "Blue Room"

\* C16: choosing the purple door sets location to Purple Room, adds 10 to
\* health, appends Purple Room to choices, and the room returns normally,
\* so that the adventure loop ends with nothing raised.
C16_PurpleRoom ==
    [][(pc = "door" /\ DoorOf(line') = W_purple) =>
         /\ player_info'.location = "Purple Room"
         /\ player_info'.health = player_info.health + 10
         /\ player_info'.choices = Append(player_info.choices, "Purple Room")
         /\ room_result' # "flee"
         /\ signal' = "none"
         /\ pc' = "done"]_vars

\* What the Purple Room's function does as it is defined: it returns
\* normally, never "flee", raises nothing, and the loop ends.
PurpleRoomReturnsNormally ==
    [][(pc = "door" /\ DoorOf(line') = W_purple) =>
         /\ room_result' # "flee"
         /\ signal' = "none"
         /\ pc' = "done"]_vars

(***************************************************************************)
(* The end of the session.                                                 *)
(***************************************************************************)
HasLowerCase(s) ==
    \E i \in 1..Len(s) : \E k \in 1..Len(LowerLetters) : s[i] = LowerLetters[k]

\* C17: a GameOver, once raised, ends the session at once: no prompt
\* follows it, player_info does not change with or after it, and it is
\* raised at most once; and every end of the session (death, victory,
\* normal return) prints the farewell exactly once, with the stored name
\* in upper case.
C17_GameOverAndFarewell ==
    /\ [][signal' # "none" => pc' = "done" /\ player_info' = player_info]_vars
    /\ [][signal # "none" => signal' = signal]_vars
    /\ [][pc # "done"]_vars
    /\ [](signal \in {"none", you_died, you_won})
    /\ [](pc = "done" <=> Len(farewell) = 1)
    /\ [](Len(farewell) <= 1)
    /\ [](pc = "done" =>
            /\ lower(farewell[1]) = lower(player_info.name)
            /\ ~HasLowerCase(farewell[1]))

C17_Witness ==
    /\ pc = "done"
    /\ signal = you_won
    /\ player_info.name = <<"A","d","a">>
    /\ farewell = << <<"A","D","A">> >>

(***************************************************************************)
(* The player's name.                                                      *)
(***************************************************************************)
NamePrompts == {"name", "nick"}

\* C18: once the name and nickname prompts are answered the stored name is
\* not empty, whatever was typed at either, and it never changes again.
C18_NameNeverEmpty ==
    /\ [](pc \notin NamePrompts => player_info.name # <<>>)
    /\ [][pc \notin NamePrompts => player_info'.name = player_info.name]_vars

\* The part of C18 that get_player_name() does keep: after its two prompts
\* the name is never assigned again.
NameSetOnce ==
    [][pc \notin NamePrompts => player_info'.name = player_info.name]_vars

RAINBOW_UNICORN ==
    <<"R","A","I","N","B","O","W"," ","U","N","I","C","O","R","N">>

NicknameStep ==
    pc = "nick" =>
        /\ lower(line') \in {W_y, W_yes} => player_info'.name = alt_name
        /\ lower(line') \in {W_n, W_no} =>
              player_info'.name = player_info.name
        /\ lower(line') \notin {W_y, W_yes, W_n, W_no} =>
              player_info'.name = alt_name
        /\ pc' = "door"

\* C19: at the nickname question y or yes in any letter case sets the name
\* to Rainbow Unicorn whatever name was entered, n or no in any letter case
\* keeps the entered name, any other answer sets Rainbow Unicorn too, and
\* in each case the next prompt is the door prompt, not the question
\* again; a session that ends with the name Rainbow Unicorn prints RAINBOW
\* UNICORN in its farewell.
C19_Nickname ==
    /\ [][NicknameStep]_vars
    /\ []((pc = "done" /\ player_info.name = alt_name) =>
            farewell = <<RAINBOW_UNICORN>>)

C19_Witness ==
    /\ pc = "door"
    /\ line = <<"m","a","y","b","e">>
    /\ player_info.name = alt_name
    /\ player_info.choices = <<>>

(***************************************************************************)
(* Letter case and surrounding whitespace of the answers.                  *)
(***************************************************************************)
SameTrimmedAnyCase(a, b) == lower(strip(a)) = lower(strip(b))

SameAnyCase(a, b) == lower(a) = lower(b)

SameDoor(a, b) == door_room(a) = door_room(b)

SameRound(a, b) ==
    /\ round_draws(a, GreenWeights) = round_draws(b, GreenWeights)
    /\ \A d \in round_draws(a, GreenWeights) :
          rps(a, GreenWeights, d) = rps(b, GreenWeights, d)

SameGuard(moved, a, b) == guard_step(moved, a) = guard_step(moved, b)

SameBlueAction(a, b) == looks_at_chest(a) = looks_at_chest(b)

SameNickname(a, b) ==
    nickname(player_info.name, a) = nickname(player_info.name, b)

\* The answers compared over the lines of each prompt; the guard's by
\* guard_moved.
DoorLinesTrimmedAnyCase ==
    \A a, b \in DoorLines : SameTrimmedAnyCase(a, b) => SameDoor(a, b)

RpsLinesTrimmedAnyCase ==
    \A a, b \in RpsLines : SameTrimmedAnyCase(a, b) => SameRound(a, b)

BlueActionLinesTrimmedAnyCase ==
    \A a, b \in BlueActionLines :
        SameTrimmedAnyCase(a, b) => SameBlueAction(a, b)

GuardLinesTrimmedAnyCase ==
    [moved \in BOOLEAN |->
        \A a, b \in GuardLines :
            SameTrimmedAnyCase(a, b) => SameGuard(moved, a, b)]

GuardLinesAnyCase ==
    [moved \in BOOLEAN |->
        \A a, b \in GuardLines : SameAnyCase(a, b) => SameGuard(moved, a, b)]

BlueActionLinesAnyCase ==
    \A a, b \in BlueActionLines : SameAnyCase(a, b) => SameBlueAction(a, b)

\* C20 as stated: at the door prompt, the guard prompt, the Blue Room's
\* action prompt, the rock-paper-scissors prompt and the nickname question,
\* two lines that differ only in letter case and surrounding whitespace
\* have the same outcome and lead to the same next state.
C20_TrimmedAnyCaseEverywhere ==
    /\ pc = "door" => DoorLinesTrimmedAnyCase
    /\ pc = "rps" => RpsLinesTrimmedAnyCase
    /\ pc = "guard" => GuardLinesTrimmedAnyCase[guard_moved]
    /\ pc = "blue_action" => BlueActionLinesTrimmedAnyCase
    /\ pc = "nick" =>
          \A a, b \in NickLines :
              SameTrimmedAnyCase(a, b) => SameNickname(a, b)

\* C20: at the door prompt and the rock-paper-scissors prompt two lines
\* that differ only in letter case and surrounding whitespace have the
\* same outcome; at the guard prompt, the Blue Room's action prompt and
\* the nickname question two lines that differ only in letter case have
\* the same outcome, surrounding whitespace being kept and compared.
C20_TrimmedOrAnyCase ==
    /\ pc = "door" => DoorLinesTrimmedAnyCase
    /\ pc = "rps" => RpsLinesTrimmedAnyCase
    /\ pc = "guard" => GuardLinesAnyCase[guard_moved]
    /\ pc = "blue_action" => BlueActionLinesAnyCase
    /\ pc = "nick" =>
          \A a, b \in NickLines : SameAnyCase(a, b) => SameNickname(a, b)

C20_Witness ==
    /\ pc = "red"
    /\ line = <<" ","R","E","D"," ">>
    /\ player_info.location = "Red Room"

(***************************************************************************)
(* Answers no branch recognizes.                                           *)
(***************************************************************************)
IsNicknameWord(l) == lower(l) \in {W_y, W_yes, W_n, W_no}

IsMenuDigit(l) == l \in {W_1, W_2}

\* C21 as stated: at the door prompt, the guard prompt, the Blue Room's
\* two 1/2 menus and the nickname question an answer that is not
\* recognized is followed by the same prompt again; an invalid
\* rock-paper-scissors line ends the round with flee instead.
AllMenusRepromptStep ==
    /\ (pc = "door" /\ DoorOf(line') = <<>>) => pc' = "door"
    /\ (pc = "guard" /\ ~IsGuardWord(line')) => pc' = "guard"
    /\ (pc = "blue_choice" /\ ~IsMenuDigit(line')) => pc' = "blue_choice"
    /\ (pc = "blue_treasure" /\ ~IsMenuDigit(line')) => pc' = "blue_treasure"
    /\ (pc = "nick" /\ ~IsNicknameWord(line')) => pc' = "nick"
    /\ (pc = "rps" /\ ~IsExitPhrase(line') /\ ~IsMoveLine(line')) =>
          room_result' = "flee" /\ pc' = "door"

C21_AllMenusReprompt == [][AllMenusRepromptStep]_vars

UnrecognizedStep ==
    /\ (pc = "door" /\ DoorOf(line') = <<>>) =>
          /\ pc' = "door"
          /\ player_info' = player_info
          /\ signal' = "none"
    /\ (pc = "guard" /\ ~IsGuardWord(line')) =>
          /\ pc' = "guard"
          /\ guard_moved' = guard_moved
          /\ player_info' = player_info
          /\ signal' = "none"
    /\ (pc \in {"blue_choice", "blue_treasure"} /\ ~IsMenuDigit(line')) =>
          /\ pc' = "guard"
          /\ player_info' = player_info
          /\ signal' = "none"
    /\ (pc = "nick" /\ ~IsNicknameWord(line')) =>
          /\ pc' = "door"
          /\ player_info' = [player_info EXCEPT !.name = alt_name]
          /\ signal' = "none"
    /\ (pc = "rps" /\ ~IsExitPhrase(line') /\ ~IsMoveLine(line')) =>
          /\ result' = "invalid"
          /\ room_result' = "flee"
          /\ pc' = "door"
          /\ player_info' = player_info
          /\ signal' = "none"

\* C21: an answer that is not recognized is followed by the same prompt,
\* with player_info unchanged and nothing raised, at the door prompt and
\* the guard prompt only; at the Blue Room's two 1/2 menus it is followed
\* by the guard encounter, and at the nickname question by the door prompt
\* with the name set to Rainbow Unicorn, nothing being raised at either;
\* an invalid rock-paper-scissors line ends the round with flee and the
\* door prompt follows.
C21_UnrecognizedInputs == [][UnrecognizedStep]_vars

C21_Witness ==
    /\ pc = "guard"
    /\ line = <<" ","1">>
    /\ guard_inputs = <<>>
    /\ player_info.location = "Blue Room"

(***************************************************************************)
(* The level, the order of the rooms and the kinds of ending.              *)
(***************************************************************************)
\* C22: level is 1 at the start and in every state of the session, the
\* victory included, and no step lowers it.
C22_LevelStaysOne ==
    /\ [](player_info.level = 1)
    /\ [][player_info'.level >= player_info.level]_vars

C22_Witness ==
    /\ pc = "done"
    /\ signal = you_won
    /\ player_info.level = 1
    /\ player_info.name = alt_name

LastRooms == {"Blue Room", "Purple Room"}

LastRoomEntered == \E r \in LastRooms : entered[r] > 0

\* C23: the Blue Room and the Purple Room are each entered at most once
\* and no room is entered after either of them, so that in choices they
\* stand last only; neither is followed by the door prompt; health never
\* exceeds 130 and Crystal Mirror is held once, by the one Blue Room entry.
C23_BlueAndPurpleLast ==
    /\ [](\A r \in LastRooms : entered[r] <= 1)
    /\ [][LastRoomEntered => entered' = entered]_vars
    /\ [](LastRoomEntered => pc # "door")
    /\ [](\A i \in 1..Len(player_info.choices) :
             player_info.choices[i] \in LastRooms =>
                 i = Len(player_info.choices))
    /\ [](player_info.health <= 130)
    /\ [](Count(player_info.inventory, "Crystal Mirror") = entered["Blue Room"])

C23_Witness ==
    /\ entered["Red Room"] = 2
    /\ entered["Green Room"] = 2
    /\ entered["Blue Room"] = 1
    /\ player_info.choices[5] = "Blue Room"
    /\ pc = "guard"

VictoryStep ==
    (signal' = you_won /\ signal # you_won) =>
        /\ pc = "rps"
        /\ result' = "win"
        /\ <<user_choice', computer_choice'>> \in Beats
        /\ player_info.location = "Green Room"

DeathStep ==
    (signal' = you_died /\ signal # you_died) =>
        /\ pc \in {"red", "guard"}
        /\ player_info.location \in {"Red Room", "Blue Room"}

NoDeathStep ==
    (pc = "rps" \/ (pc = "door" /\ DoorOf(line') = W_purple)) =>
        signal' # you_died

\* C24: the victory is raised only by a won round of the Green Room, so at
\* a victory location is Green Room and Emerald Amulet is held; a death is
\* raised only at the Red Room's prompt or the Blue Room's guard prompt; no
\* step of the Green Room or of the Purple Room raises a death.
C24_EndingsByRoom ==
    /\ [][VictoryStep]_vars
    /\ [][DeathStep]_vars
    /\ [][NoDeathStep]_vars
    /\ [](signal = you_won =>
            /\ player_info.location = "Green Room"
            /\ Count(player_info.inventory, "Emerald Amulet") = 1
            /\ result = "win")
    /\ [](signal = you_died =>
            \/ player_info.location = "Red Room" /\ guard_result = "none"
            \/ player_info.location = "Blue Room" /\ guard_result = "died")

C24_Witness ==
    /\ signal = you_won
    /\ player_info.location = "Green Room"
    /\ entered["Red Room"] = 1
    /\ Count(player_info.inventory, "Emerald Amulet") = 1

(***************************************************************************)
(* Termination of the Green Room and of the guard encounter.               *)
(***************************************************************************)
\* A round of the Green Room that is a tie, and one that is not.
TieRound == green_magic_room /\ result' = "tie"

NonTieRound == green_magic_room /\ result' # "tie"

\* The session under the assumption that the Green Room's rounds are not
\* tied for ever.
NonTieSpec == Init /\ [][Next]_vars /\ WF_vars(NonTieRound)

\* What the rounds on line l can give with the Green Room's weights.
OpponentMoves(l) ==
    { rps(l, GreenWeights, d).computer_choice :
          d \in round_draws(l, GreenWeights) }

RoundResults(l) ==
    { rps(l, GreenWeights, d).result : d \in round_draws(l, GreenWeights) }

AllOutcomesPossible ==
    \A l \in RpsLines :
        IsMoveLine(l) =>
            /\ OpponentMoves(l) = Moves
            /\ RoundResults(l) = {"win", "lose", "tie"}

TieStep ==
    (pc = "rps" /\ result' = "tie") =>
        /\ pc' = "rps"
        /\ player_info' = player_info
        /\ entered' = entered
        /\ signal' = "none"

NonTieStep == (pc = "rps" /\ result' # "tie") => pc' # "rps"

\* C25: at the Green Room's prompt every move can be answered by each of
\* the three moves, so that a round can be won, lost or tied; a tied round
\* changes no field of player_info, enters no room and is followed by the
\* prompt again, where a further tie is possible, so the ties have no
\* bound; a round that is not a tie ends the room, so the room ends if the
\* rounds are not tied for ever.
C25_GreenRoomTies ==
    /\ [](pc = "rps" => AllOutcomesPossible)
    /\ [](pc = "rps" => ENABLED TieRound)
    /\ [][TieStep]_vars
    /\ [][NonTieStep]_vars
    /\ (pc = "rps") ~> (pc # "rps")

C25_Witness ==
    /\ pc = "rps"
    /\ result = "tie"
    /\ user_choice = W_Paper
    /\ computer_choice = W_Paper
    /\ drew
    /\ Count(player_info.choices, "Green Room") = 1

\* The session of a player who goes on answering the guard's prompt.
GuardInputSpec == Init /\ [][Next]_vars /\ WF_vars(guard)

\* How many of the lines the encounter has read are run or door.
RecognizedCount ==
    Cardinality({i \in 1..Len(guard_inputs) : IsGuardWord(guard_inputs[i])})

GuardMovedStep ==
    /\ guard_moved => guard_moved'
    /\ guard_moved' # guard_moved =>
          pc = "guard" /\ lower(line') = W_run /\ pc' = "guard"

GuardRecognizedStep ==
    (pc = "guard" /\ IsGuardWord(line')) =>
        \/ pc' # "guard" /\ guard_result' \in {"escaped", "died"}
        \/ ~guard_moved /\ guard_moved' /\ pc' = "guard"

\* C26: the encounter has ended as soon as two of its lines were run or
\* door, and never reads a third; guard_moved only goes from false to true,
\* on a first run, and never back; once it is true every run or door ends
\* the encounter; so an encounter whose prompt keeps being answered ends
\* unless all its lines but at most one are unrecognized.
C26_GuardTerminates ==
    /\ [](RecognizedCount <= 2)
    /\ [](RecognizedCount = 2 => guard_result \in {"escaped", "died"})
    /\ [](guard_result \in {"escaped", "died"} =>
            pc = "done" /\ RecognizedCount \in {1, 2})
    /\ [](pc = "guard" => RecognizedCount < 2 /\ guard_result = "none")
    /\ [](guard_moved => RecognizedCount >= 1)
    /\ [][GuardMovedStep]_vars
    /\ [][GuardRecognizedStep]_vars
    /\ (pc = "guard") ~>
          \/ pc # "guard"
          \/ Len(guard_inputs) = MaxGuardInputs /\ RecognizedCount < 2

C26_Witness ==
    /\ pc = "guard"
    /\ guard_moved
    /\ Len(guard_inputs) = MaxGuardInputs
    /\ RecognizedCount = 1
    /\ ~IsGuardWord(line)

====
